---------------------------- MODULE Spec2Model ----------------------------
(***************************************************************************)
(* A model of worker/index.js of wifi-geolocate-worker: the varint and     *)
(* wire-format codec, the request builder, the sequential upstream calls   *)
(* of collectAppleDevices, and the aggregation of formatResults.           *)
(*                                                                         *)
(* JavaScript BigInt values are modelled as sequences of bits, least       *)
(* significant bit first, without high-order zero bits (0 is <<>>): they   *)
(* have no fixed width, as in the source.  Bytes are the integers 0..255.  *)
(* Text is a sequence of one-character strings.                            *)
(***************************************************************************)
EXTENDS Integers, Sequences, FiniteSets, TLC

VARIABLES
    \* ---- one request to the worker (specification Spec)
    pc,                  \* "idle", "start", "collect", "await" or "done"
    request,             \* the inbound request
    includeAll,          \* extractParams' includeAll
    accessPoints,        \* the normalized access points, duplicates kept
    uniqueAccessPoints,  \* the access points collectAppleDevices loops over
    idx,                 \* the loop's position: the next point to query (from 1)
    seen,                \* collectAppleDevices' seen
    aggregated,          \* collectAppleDevices' aggregated
    response,            \* None, or the response fetch returned
    calls,               \* history: the upstream calls issued, in order
    replies,             \* history: the upstream replies received, in order
    inflight,            \* the number of upstream calls awaiting their reply
    \* ---- the codec probes (specifications SpecVarint and SpecEncode)
    vpc,        \* position of the varint probe: "idle", "input", "encoded", "decoded"
    vx,         \* the BigInt handed to encodeVarint
    vbytes,     \* the bytes encodeVarint returned
    vdec,       \* what readVarint(vbytes, 0) returned
    epc,        \* position of the builder probe: "idle", "input", "built"
    eaps,       \* the access points handed to encodeAppleWLocRequest
    eall,       \* the includeAll flag handed to it
    eout,       \* what encodeAppleWLocRequest returned (bytes, or the error)
    \* ---- the location probe (specification SpecLocation)
    lpc,        \* position of the location probe: "idle", "input", "decoded"
    llat,       \* the wire value of field 1 (latitude), or None when absent
    llon,       \* the wire value of field 2 (longitude), or None when absent
    lloc        \* what parseLocation returned

requestVars == <<pc, request, includeAll, accessPoints, uniqueAccessPoints, idx, seen,
                 aggregated, response, calls, replies, inflight>>
varintVars == <<vpc, vx, vbytes, vdec>>
encodeVars == <<epc, eaps, eall, eout>>
locationVars == <<lpc, llat, llon, lloc>>
vars == <<requestVars, varintVars, encodeVars, locationVars>>

\* An optional value (null or a value) is a sequence of length 0 or 1.
None == <<>>
Some(x) == <<x>>

Min(a, b) == IF a < b THEN a ELSE b
Max(a, b) == IF a > b THEN a ELSE b

(***************************************************************************)
(* BigInt arithmetic on bit sequences.                                     *)
(***************************************************************************)
RECURSIVE BigNorm(_)
BigNorm(b) ==
    IF b = <<>> THEN <<>>
    ELSE IF b[Len(b)] = 1 THEN b
    ELSE BigNorm(SubSeq(b, 1, Len(b) - 1))

\* BigInt(n) of a small non-negative Number n.
RECURSIVE BigFromNat(_)
BigFromNat(n) == IF n = 0 THEN <<>> ELSE <<n % 2>> \o BigFromNat(n \div 2)

\* 2n ** k
BigPow2(k) == [i \in 1..(k + 1) |-> IF i = k + 1 THEN 1 ELSE 0]

\* The BigInt whose 16-bit words, least significant first, are ws.
RECURSIVE BigFromWords(_)
BigFromWords(ws) ==
    IF ws = <<>> THEN <<>>
    ELSE BigNorm([i \in 1..16 |-> (ws[1] \div (2 ^ (i - 1))) % 2] \o BigFromWords(Tail(ws)))

\* n >> k
BigShr(n, k) == IF Len(n) <= k THEN <<>> ELSE SubSeq(n, k + 1, Len(n))

\* n << k
BigShl(n, k) == IF n = <<>> THEN <<>> ELSE [i \in 1..k |-> 0] \o n

\* n & (2^k - 1)
BigLowBits(n, k) == BigNorm(SubSeq(n, 1, Min(k, Len(n))))

\* a | b
BigOr(a, b) ==
    BigNorm([i \in 1..Max(Len(a), Len(b)) |->
                IF (i <= Len(a) /\ a[i] = 1) \/ (i <= Len(b) /\ b[i] = 1) THEN 1 ELSE 0])

\* a < b
RECURSIVE BigLess(_, _)
BigLess(a, b) ==
    IF Len(a) # Len(b) THEN Len(a) < Len(b)
    ELSE IF a = <<>> THEN FALSE
    ELSE IF a[Len(a)] # b[Len(b)] THEN a[Len(a)] < b[Len(b)]
    ELSE BigLess(BigNorm(SubSeq(a, 1, Len(a) - 1)), BigNorm(SubSeq(b, 1, Len(b) - 1)))

\* a - b for a >= b, bit by bit with a borrow.
RECURSIVE BigSubBits(_, _, _)
BigSubBits(a, b, borrow) ==
    IF a = <<>> THEN <<>>
    ELSE LET bi == IF b = <<>> THEN 0 ELSE b[1]
             d  == a[1] - bi - borrow
         IN  <<d % 2>> \o BigSubBits(Tail(a), IF b = <<>> THEN <<>> ELSE Tail(b),
                                     IF d < 0 THEN 1 ELSE 0)

BigSub(a, b) == BigNorm(BigSubBits(a, b, 0))

\* A signed BigInt is [neg, mag]; a - b of two non-negative BigInts.
SignedSub(a, b) ==
    IF BigLess(a, b) THEN [neg |-> TRUE, mag |-> BigSub(b, a)]
    ELSE [neg |-> FALSE, mag |-> BigSub(a, b)]

\* The value of a BigInt of at most 20 bits.
RECURSIVE BigSmallValue(_)
BigSmallValue(b) == IF b = <<>> THEN 0 ELSE b[1] + 2 * BigSmallValue(Tail(b))

\* Number(n) where the result is used as a buffer offset or a field number:
\* exact below 2^20, and 2^20 (past the end of every buffer) from there on.
BigToNumber(n) == IF Len(n) > 20 THEN 2 ^ 20 ELSE BigSmallValue(n)

(***************************************************************************)
(* VarintCodec: readVarint and encodeVarint.                               *)
(***************************************************************************)
\* A decoding failure: the Error the source throws (it carries no statusCode).
Failure(msg) == [ok |-> FALSE, error |-> msg]

RECURSIVE readVarintLoop(_, _, _, _)
readVarintLoop(buffer, position, result, shift) ==
    IF position < Len(buffer)
    THEN LET byte == buffer[position + 1]
             acc  == BigOr(result, BigShl(BigFromNat(byte % 128), shift))
         IN  IF byte < 128
             THEN [ok |-> TRUE, value |-> acc, next |-> position + 1]
             ELSE readVarintLoop(buffer, position + 1, acc, shift + 7)
    ELSE Failure("Encountered truncated varint.")

readVarint(buffer, offset) == readVarintLoop(buffer, offset, <<>>, 0)

\* encodeVarint with the continuation test off by one (n > 0x80n for
\* n >= 0x80n): 128 is pushed as one byte.
RECURSIVE encodeVarintOffByOne(_)
encodeVarintOffByOne(n) ==
    IF BigLess(BigFromNat(128), n)
    THEN <<BigSmallValue(BigLowBits(n, 7)) + 128>> \o encodeVarintOffByOne(BigShr(n, 7))
    ELSE <<BigSmallValue(BigLowBits(n, 8))>>

\* (n & 0x7fn) | 0x80n is the low seven bits plus 128.
RECURSIVE encodeVarint(_)
encodeVarint(n) ==
    IF ~BigLess(n, BigFromNat(128))
    THEN <<BigSmallValue(BigLowBits(n, 7)) + 128>> \o encodeVarint(BigShr(n, 7))
    ELSE <<BigSmallValue(n)>>

(***************************************************************************)
(* Text: TEXT_ENCODER.encode and TEXT_DECODER.decode over the characters   *)
(* the model uses (all ASCII, one byte each).                              *)
(***************************************************************************)
Ascii ==
    { <<"0", 48>>, <<"1", 49>>, <<"2", 50>>, <<"3", 51>>, <<"4", 52>>, <<"5", 53>>,
      <<"6", 54>>, <<"7", 55>>, <<"8", 56>>, <<"9", 57>>, <<"a", 97>>, <<"b", 98>>,
      <<"c", 99>>, <<"d", 100>>, <<"e", 101>>, <<"f", 102>>, <<"A", 65>>, <<"B", 66>>,
      <<"C", 67>>, <<"D", 68>>, <<"E", 69>>, <<"F", 70>>, <<":", 58>>, <<"-", 45>>,
      <<"z", 122>>, <<"_", 95>>, <<".", 46>>, <<"n", 110>>, <<"U", 85>>, <<"S", 83>>,
      <<"o", 111>>, <<"m", 109>>, <<"p", 112>>, <<"l", 108>>, <<"t", 116>>, <<"i", 105>> }

CharCodes == [c \in {p[1] : p \in Ascii} |-> (CHOOSE p \in Ascii : p[1] = c)[2]]
CodeChars == [b \in {p[2] : p \in Ascii} |-> (CHOOSE p \in Ascii : p[2] = b)[1]]

CharCode(c) == CharCodes[c]

\* A byte that is no character of the table decodes to U+FFFD, written "?".
CodeChar(b) == IF b \in DOMAIN CodeChars THEN CodeChars[b] ELSE "?"

TextEncode(text) == [i \in 1..Len(text) |-> CharCode(text[i])]
TextDecode(bytes) == [i \in 1..Len(bytes) |-> CodeChar(bytes[i])]

(***************************************************************************)
(* normalizeBssid and tryNormalizeBssid.                                   *)
(***************************************************************************)
HexChars == {"0", "1", "2", "3", "4", "5", "6", "7", "8", "9",
             "a", "b", "c", "d", "e", "f", "A", "B", "C", "D", "E", "F"}

ToLowerCase(c) ==
    CASE c = "A" -> "a" [] c = "B" -> "b" [] c = "C" -> "c" [] c = "D" -> "d"
      [] c = "E" -> "e" [] c = "F" -> "f" [] c = "U" -> "u" [] c = "S" -> "s"
      [] OTHER -> c

\* input.replace(/[^a-f0-9]/gi, '').toLowerCase()
RECURSIVE HexOnly(_)
HexOnly(text) ==
    IF text = <<>> THEN <<>>
    ELSE IF text[1] \in HexChars THEN <<ToLowerCase(text[1])>> \o HexOnly(Tail(text))
    ELSE HexOnly(Tail(text))

\* The slices hex.slice(i, i + 2) for i = 0, 2, 4, ... joined with ':'.
RECURSIVE JoinPairs(_)
JoinPairs(hex) ==
    IF Len(hex) <= 2 THEN hex
    ELSE SubSeq(hex, 1, 2) \o <<":">> \o JoinPairs(SubSeq(hex, 3, Len(hex)))

normalizeBssid(input) ==
    LET hex == HexOnly(input)
    IN  IF Len(hex) # 12
        THEN Failure("Each BSSID must contain 12 hexadecimal characters.")
        ELSE [ok |-> TRUE, value |-> JoinPairs(hex)]

\* null when normalizeBssid throws.
tryNormalizeBssid(input) ==
    LET r == normalizeBssid(input) IN IF r.ok THEN Some(r.value) ELSE None

(***************************************************************************)
(* RequestEnvelopeBuilder: encodeAppleWLocRequest and buildEnvelope.       *)
(***************************************************************************)
\* returnSingle without the test of the number of access points.
returnSingleIgnoresCount(points, all) == IF ~all THEN 1 ELSE 0

returnSingle(points, all) ==
    IF ~all /\ Len(points) = 1 THEN 1 ELSE 0

\* The 0x12 wrapper of one access point.
wifiDeviceWrapper(point) ==
    LET bssidBytes == TextEncode(point.bssid)
        wifiDevice == <<10>> \o encodeVarint(BigFromNat(Len(bssidBytes))) \o bssidBytes
    IN  <<18>> \o encodeVarint(BigFromNat(Len(wifiDevice))) \o wifiDevice

RECURSIVE wifiDeviceWrappers(_)
wifiDeviceWrappers(points) ==
    IF points = <<>> THEN <<>>
    ELSE wifiDeviceWrapper(points[1]) \o wifiDeviceWrappers(Tail(points))

encodeAppleWLocRequest(points, all) ==
    IF Len(points) = 0
    THEN Failure("At least one access point is required.")
    ELSE [ok |-> TRUE,
          bytes |-> wifiDeviceWrappers(points)
                    \o <<24>> \o encodeVarint(BigFromNat(0))
                    \o <<32>> \o encodeVarint(BigFromNat(returnSingle(points, all)))]

\* Uint8Array.from([message.length]) keeps the low eight bits of the length.
buildEnvelope(message) ==
    <<0, 1, 0, 5>>
    \o TextEncode(<<"e", "n", "_", "U", "S">>)
    \o <<0, 19>>
    \o TextEncode(<<"c", "o", "m", ".", "a", "p", "p", "l", "e", ".",
                    "l", "o", "c", "a", "t", "i", "o", "n", "d">>)
    \o <<0, 10>>
    \o TextEncode(<<"8", ".", "1", ".", "1", "2", "B", "4", "1", "1">>)
    \o <<0, 0, 0, 1, 0, 0, 0>>
    \o <<Len(message) % 256>>
    \o message

(***************************************************************************)
(* WireMessageCodec and ResponseDecoder: skipField, decodeInt64,           *)
(* parseLocation, parseWifiDevice, parseAppleWLoc.                         *)
(***************************************************************************)
\* buffer.subarray(begin, end): both ends are clamped to the buffer.
Subarray(buffer, begin, end) ==
    SubSeq(buffer, Min(begin, Len(buffer)) + 1, Min(end, Len(buffer)))

\* Number(tag >> 3n) and Number(tag & 0x07n)
FieldNumber(tag) == BigToNumber(BigShr(tag, 3))
WireType(tag) == BigSmallValue(BigLowBits(tag, 3))

skipField(buffer, offset, wireType) ==
    CASE wireType = 0 ->
            LET r == readVarint(buffer, offset)
            IN  IF r.ok THEN [ok |-> TRUE, next |-> r.next] ELSE r
      [] wireType = 1 -> [ok |-> TRUE, next |-> offset + 8]
      [] wireType = 2 ->
            LET r == readVarint(buffer, offset)
            IN  IF r.ok THEN [ok |-> TRUE, next |-> r.next + BigToNumber(r.value)] ELSE r
      [] wireType = 5 -> [ok |-> TRUE, next |-> offset + 4]
      [] OTHER -> Failure("Unsupported wire type")

\* 0x7fffffffffffffffn and 0x10000000000000000n
MaxInt64 == BigSub(BigPow2(63), BigFromNat(1))
TwoPow64 == BigPow2(64)

decodeInt64(buffer, offset) ==
    LET r == readVarint(buffer, offset)
    IN  IF ~r.ok THEN r
        ELSE [ok |-> TRUE,
              value |-> IF BigLess(MaxInt64, r.value)
                        THEN SignedSub(r.value, TwoPow64)
                        ELSE [neg |-> FALSE, mag |-> r.value],
              next |-> r.next]

RECURSIVE BigInc(_)
BigInc(b) ==
    IF b = <<>> THEN <<1>>
    ELSE IF b[1] = 0 THEN <<1>> \o Tail(b)
    ELSE <<0>> \o BigInc(Tail(b))

\* Number(v) of a signed BigInt: the nearest double (53 significant bits, ties
\* to even), kept as the integer it is equal to.
NumberOfBigInt(v) ==
    IF Len(v.mag) <= 53 THEN v
    ELSE LET drop == Len(v.mag) - 53
             kept == BigShr(v.mag, drop)
             rest == BigLowBits(v.mag, drop)
             half == BigPow2(drop - 1)
             up   == BigLess(half, rest) \/ (rest = half /\ kept[1] = 1)
         IN  [neg |-> v.neg, mag |-> BigShl(IF up THEN BigInc(kept) ELSE kept, drop)]

RECURSIVE parseLocationLoop(_, _, _, _)
parseLocationLoop(buffer, offset, latitude, longitude) ==
    IF offset < Len(buffer)
    THEN LET t == readVarint(buffer, offset)
         IN  IF ~t.ok THEN t
             ELSE IF WireType(t.value) = 0
             THEN LET d == decodeInt64(buffer, t.next)
                  IN  IF ~d.ok THEN d
                      ELSE parseLocationLoop(buffer, d.next,
                              IF FieldNumber(t.value) = 1 THEN Some(d.value) ELSE latitude,
                              IF FieldNumber(t.value) = 2 THEN Some(d.value) ELSE longitude)
             ELSE LET k == skipField(buffer, t.next, WireType(t.value))
                  IN  IF ~k.ok THEN k
                      ELSE parseLocationLoop(buffer, k.next, latitude, longitude)
    ELSE IF latitude = None \/ longitude = None
    THEN [ok |-> TRUE, value |-> None]
    ELSE [ok |-> TRUE,
          value |-> Some([latitudeE8 |-> NumberOfBigInt(latitude[1]),
                          longitudeE8 |-> NumberOfBigInt(longitude[1])])]

parseLocation(buffer) == parseLocationLoop(buffer, 0, None, None)

RECURSIVE parseWifiDeviceLoop(_, _, _, _)
parseWifiDeviceLoop(buffer, offset, bssid, location) ==
    IF offset < Len(buffer)
    THEN LET t == readVarint(buffer, offset)
         IN  IF ~t.ok THEN t
             ELSE IF FieldNumber(t.value) \in {1, 2} /\ WireType(t.value) = 2
             THEN LET l == readVarint(buffer, t.next)
                  IN  IF ~l.ok THEN l
                      ELSE LET end == l.next + BigToNumber(l.value)
                               sub == Subarray(buffer, l.next, end)
                           IN  IF FieldNumber(t.value) = 1
                               THEN parseWifiDeviceLoop(buffer, end,
                                        Some(TextDecode(sub)), location)
                               ELSE LET loc == parseLocation(sub)
                                    IN  IF ~loc.ok THEN loc
                                        ELSE parseWifiDeviceLoop(buffer, end, bssid, loc.value)
             ELSE LET k == skipField(buffer, t.next, WireType(t.value))
                  IN  IF ~k.ok THEN k
                      ELSE parseWifiDeviceLoop(buffer, k.next, bssid, location)
    ELSE [ok |-> TRUE, value |-> [bssid |-> bssid, location |-> location]]

parseWifiDevice(buffer) == parseWifiDeviceLoop(buffer, 0, None, None)

RECURSIVE parseAppleWLocLoop(_, _, _)
parseAppleWLocLoop(buffer, offset, devices) ==
    IF offset < Len(buffer)
    THEN LET t == readVarint(buffer, offset)
         IN  IF ~t.ok THEN t
             ELSE IF FieldNumber(t.value) = 2 /\ WireType(t.value) = 2
             THEN LET l == readVarint(buffer, t.next)
                  IN  IF ~l.ok THEN l
                      ELSE LET end == l.next + BigToNumber(l.value)
                               dev == parseWifiDevice(Subarray(buffer, l.next, end))
                           IN  IF ~dev.ok THEN dev
                               ELSE parseAppleWLocLoop(buffer, end, Append(devices, dev.value))
             ELSE LET k == skipField(buffer, t.next, WireType(t.value))
                  IN  IF ~k.ok THEN k
                      ELSE parseAppleWLocLoop(buffer, k.next, devices)
    ELSE [ok |-> TRUE, value |-> devices]

parseAppleWLoc(buffer) == parseAppleWLocLoop(buffer, 0, <<>>)

(***************************************************************************)
(* Signals: normalizeSignal, summarizeSignals, weightFromSignal.           *)
(* A JSON signal value is [t |-> "null"], [t |-> "num", finite, v],        *)
(* [t |-> "str", s] or [t |-> "bool"]; a normalized signal is None (null)  *)
(* or Some(v) with v an integer number of dBm.                             *)
(***************************************************************************)
\* Number(s) for the strings the model uses.
NumberOfString(s) ==
    CASE s = "-60"      -> [nan |-> FALSE, finite |-> TRUE, v |-> 0 - 60]
      [] s = "-200"     -> [nan |-> FALSE, finite |-> TRUE, v |-> 0 - 200]
      [] s = "Infinity" -> [nan |-> FALSE, finite |-> FALSE, v |-> 0]
      [] OTHER          -> [nan |-> TRUE, finite |-> FALSE, v |-> 0]

\* normalizeSignal taking what is no finite number for no signal.
normalizeSignalLenient(value) ==
    IF value.t = "num" /\ value.finite
    THEN [ok |-> TRUE, value |-> Some(value.v)]
    ELSE IF value.t = "str" /\ ~NumberOfString(value.s).nan /\ NumberOfString(value.s).finite
    THEN [ok |-> TRUE, value |-> Some(NumberOfString(value.s).v)]
    ELSE [ok |-> TRUE, value |-> None]

normalizeSignal(value) ==
    IF value.t = "null" \/ (value.t = "str" /\ value.s = "")
    THEN [ok |-> TRUE, value |-> None]
    ELSE IF value.t = "num" /\ value.finite
    THEN [ok |-> TRUE, value |-> Some(value.v)]
    ELSE IF value.t = "str" /\ ~NumberOfString(value.s).nan /\ NumberOfString(value.s).finite
    THEN [ok |-> TRUE, value |-> Some(NumberOfString(value.s).v)]
    ELSE Failure("Signal strength must be a finite number.")

RECURSIVE SeqSum(_)
SeqSum(xs) == IF xs = <<>> THEN 0 ELSE xs[1] + SeqSum(Tail(xs))

RECURSIVE SeqMin(_)
SeqMin(xs) == IF Len(xs) = 1 THEN xs[1] ELSE Min(xs[1], SeqMin(Tail(xs)))

RECURSIVE SeqMax(_)
SeqMax(xs) == IF Len(xs) = 1 THEN xs[1] ELSE Max(xs[1], SeqMax(Tail(xs)))

\* Number(average.toFixed(2)), in hundredths of a dBm (the nearest hundredth).
AverageHundredths(total, count) ==
    IF total >= 0 THEN (200 * total + count) \div (2 * count)
    ELSE 0 - ((200 * (0 - total) + count) \div (2 * count))

summarizeSignals(signals) ==
    IF Len(signals) = 0 THEN None
    ELSE Some([signal |-> AverageHundredths(SeqSum(signals), Len(signals)),
               signalCount |-> Len(signals),
               signalMin |-> SeqMin(signals),
               signalMax |-> SeqMax(signals)])

\* 10^(clamped / 10) in units of 10^-12; the model's signals are multiples
\* of 10 dBm, for which this is an integer.  (Every normalized signal is
\* finite, so the branch returning 0 is never taken.)
weightFromSignal(signal) ==
    LET clamped == Max(Min(signal, 0 - 5), 0 - 120)
    IN  10 ^ ((clamped + 120) \div 10)

RECURSIVE SumWeights(_)
SumWeights(signals) ==
    IF signals = <<>> THEN 0 ELSE weightFromSignal(signals[1]) + SumWeights(Tail(signals))

(***************************************************************************)
(* TriangulationEngine: computeTriangulatedLocation.  The centroid's       *)
(* coordinates are trigonometric and are not modelled; pointsUsed and      *)
(* weightSum are.                                                          *)
(***************************************************************************)
RECURSIVE TotalWeight(_)
TotalWeight(points) ==
    IF points = <<>> THEN 0
    ELSE (IF points[1].weight > 0 THEN points[1].weight ELSE 0) + TotalWeight(Tail(points))

\* computeTriangulatedLocation with the test points.length < 1.
computeTriangulatedLocationFromOne(points) ==
    IF Len(points) < 1 THEN None
    ELSE IF TotalWeight(points) <= 0 THEN None
    ELSE Some([pointsUsed |-> Len(points), weightSum |-> TotalWeight(points)])

computeTriangulatedLocation(points) ==
    IF Len(points) < 2 THEN None
    ELSE IF TotalWeight(points) <= 0 THEN None
    ELSE Some([pointsUsed |-> Len(points), weightSum |-> TotalWeight(points)])

(***************************************************************************)
(* AccessPointAggregator: formatResults.                                   *)
(***************************************************************************)
\* requestedMap.get(bssid)?.signals ?? []: the non-null signals the request
\* gave for bssid, in request order.
RECURSIVE requestedSignals(_, _)
requestedSignals(requestedAccessPoints, bssid) ==
    IF requestedAccessPoints = <<>> THEN <<>>
    ELSE (IF requestedAccessPoints[1].bssid = bssid /\ requestedAccessPoints[1].signal # None
          THEN <<requestedAccessPoints[1].signal[1]>> ELSE <<>>)
         \o requestedSignals(Tail(requestedAccessPoints), bssid)

\* new Set(requestedMap.keys())
requestedKeys(requestedAccessPoints) ==
    {requestedAccessPoints[i].bssid : i \in 1..Len(requestedAccessPoints)}

\* -18000000000, the only latitudeE8 (longitudeE8) for which x / 1e8 === -180.
E8Of180 == BigFromWords(<<13312, 12514, 4>>)
IsMinus180(e8) == e8.neg /\ e8.mag = E8Of180

\* IsSentinel with the sign of the sentinel lost: 180 for -180.
IsSentinelPlus180(location) ==
    /\ ~location.latitudeE8.neg /\ location.latitudeE8.mag = E8Of180
    /\ ~location.longitudeE8.neg /\ location.longitudeE8.mag = E8Of180

\* latitude === -180 && longitude === -180
IsSentinel(location) == IsMinus180(location.latitudeE8) /\ IsMinus180(location.longitudeE8)


\* The device loop of formatResults: a device is skipped when it has no bssid,
\* no location, a bssid that does not normalize, or the sentinel location.
\* latitude and longitude are kept in units of 10^-8 degree.
usableDevice(device) ==
    /\ device.bssid # None /\ device.bssid[1] # <<>>
    /\ device.location # None
    /\ tryNormalizeBssid(device.bssid[1]) # None
    /\ ~IsSentinel(device.location[1])

RECURSIVE aggregateResults(_, _)
aggregateResults(devices, requestedAccessPoints) ==
    IF devices = <<>> THEN <<>>
    ELSE IF ~usableDevice(devices[1])
    THEN aggregateResults(Tail(devices), requestedAccessPoints)
    ELSE LET normalized == tryNormalizeBssid(devices[1].bssid[1])[1]
             signals == requestedSignals(requestedAccessPoints, normalized)
         IN  <<[bssid |-> normalized,
                latitude |-> devices[1].location[1].latitudeE8,
                longitude |-> devices[1].location[1].longitudeE8,
                summary |-> summarizeSignals(signals),
                weight |-> SumWeights(signals)]>>
             \o aggregateResults(Tail(devices), requestedAccessPoints)

\* triangulationCandidates with every entry pushed, whatever its weight.
RECURSIVE triangulationCandidatesAnyWeight(_)
triangulationCandidatesAnyWeight(entries) ==
    IF entries = <<>> THEN <<>>
    ELSE <<[latitude |-> entries[1].latitude, longitude |-> entries[1].longitude,
            weight |-> entries[1].weight]>>
         \o triangulationCandidatesAnyWeight(Tail(entries))

\* The candidates pushed when weight > 0.
RECURSIVE triangulationCandidates(_)
triangulationCandidates(entries) ==
    IF entries = <<>> THEN <<>>
    ELSE (IF entries[1].weight > 0
          THEN <<[latitude |-> entries[1].latitude, longitude |-> entries[1].longitude,
                  weight |-> entries[1].weight]>>
          ELSE <<>>)
         \o triangulationCandidates(Tail(entries))

ResultEntry(e) ==
    [bssid |-> e.bssid, latitude |-> e.latitude, longitude |-> e.longitude,
     summary |-> e.summary]

RECURSIVE ResultEntries(_)
ResultEntries(entries) ==
    IF entries = <<>> THEN <<>> ELSE <<ResultEntry(entries[1])>> \o ResultEntries(Tail(entries))

RECURSIVE FilterRequested(_, _)
FilterRequested(entries, keys) ==
    IF entries = <<>> THEN <<>>
    ELSE (IF entries[1].bssid \in keys THEN <<entries[1]>> ELSE <<>>)
         \o FilterRequested(Tail(entries), keys)

\* selectResults returning every entry whatever includeAll is.
selectResultsUnfiltered(aggregatedResults, requestedAccessPoints, all) ==
    aggregatedResults

\* includeAll ? aggregatedResults : aggregatedResults.filter(...)
selectResults(aggregatedResults, requestedAccessPoints, all) ==
    IF all THEN aggregatedResults
    ELSE FilterRequested(aggregatedResults, requestedKeys(requestedAccessPoints))

formatResults(devices, requestedAccessPoints, all) ==
    LET entries == aggregateResults(devices, requestedAccessPoints)
        results == selectResults(ResultEntries(entries), requestedAccessPoints, all)
    IN  [query |-> [accessPoints |-> requestedAccessPoints, all |-> all],
         found |-> Len(results) > 0,
         results |-> results,
         triangulated |-> computeTriangulatedLocation(triangulationCandidates(entries)),
         fallback |-> None]

(***************************************************************************)
(* The inbound request: parseBoolean, extractParams, and the              *)
(* normalization and deduplication of fetch.                               *)
(* A request is [method, queryBssid, queryAll, json, body, cf]; a body is  *)
(* [accessPoints, bssid, signal, all], where accessPoints is None when it  *)
(* is no array, bssid is None when it is no string, and all is None when   *)
(* undefined (otherwise String(body.all)).                                 *)
(***************************************************************************)
\* String(value).trim().toLowerCase() for the strings the model uses.
TrimLower(s) ==
    CASE s = "TRUE" -> "true" [] s = " yes " -> "yes" [] OTHER -> s

parseBoolean(value) ==
    IF value = None THEN FALSE
    ELSE TrimLower(value[1]) \in {"", "1", "true", "yes"}

\* The index of the first JSON point whose bssid is no string, or 0.
RECURSIVE FirstNonString(_, _)
FirstNonString(points, index) ==
    IF index > Len(points) THEN 0
    ELSE IF points[index].bssid = None THEN index
    ELSE FirstNonString(points, index + 1)

extractParams(req) ==
    LET includeAllQuery == parseBoolean(req.queryAll)
        body == req.body
        includeAllBody == IF body.all # None THEN parseBoolean(body.all) ELSE includeAllQuery
    IN  IF req.method # "POST"
        THEN IF req.queryBssid = None \/ req.queryBssid[1] = <<>>
             THEN Failure("Provide bssid as a query string parameter or use POST JSON with points.")
             ELSE [ok |-> TRUE,
                   accessPoints |-> <<[bssid |-> req.queryBssid[1], signal |-> [t |-> "null"]]>>,
                   includeAll |-> includeAllQuery]
        ELSE IF ~req.json
        THEN Failure("POST requests must use JSON (application/json).")
        ELSE IF body.accessPoints # None /\ Len(body.accessPoints[1]) > 0
        THEN IF FirstNonString(body.accessPoints[1], 1) # 0
             THEN Failure("points[index].bssid must be a string.")
             ELSE [ok |-> TRUE,
                   accessPoints |-> [i \in 1..Len(body.accessPoints[1]) |->
                                        [bssid |-> body.accessPoints[1][i].bssid[1],
                                         signal |-> body.accessPoints[1][i].signal]],
                   includeAll |-> includeAllBody]
        ELSE IF body.bssid # None
        THEN [ok |-> TRUE,
              accessPoints |-> <<[bssid |-> body.bssid[1], signal |-> body.signal]>>,
              includeAll |-> includeAllBody]
        ELSE Failure("POST JSON payload must include points array with bssid values.")

\* rawAccessPoints.map(...): the first point that does not normalize throws.
RECURSIVE normalizeAccessPoints(_)
normalizeAccessPoints(rawAccessPoints) ==
    IF rawAccessPoints = <<>> THEN [ok |-> TRUE, value |-> <<>>]
    ELSE LET b == normalizeBssid(rawAccessPoints[1].bssid)
             g == normalizeSignal(rawAccessPoints[1].signal)
             rest == normalizeAccessPoints(Tail(rawAccessPoints))
         IN  IF ~b.ok THEN b
             ELSE IF ~g.ok THEN g
             ELSE IF ~rest.ok THEN rest
             ELSE [ok |-> TRUE,
                   value |-> <<[bssid |-> b.value, signal |-> g.value]>> \o rest.value]

\* The keys of new Map(entries), in the order of their first insertion.
RECURSIVE MapKeys(_, _)
MapKeys(points, seenKeys) ==
    IF points = <<>> THEN <<>>
    ELSE IF points[1].bssid \in seenKeys THEN MapKeys(Tail(points), seenKeys)
    ELSE <<points[1].bssid>> \o MapKeys(Tail(points), seenKeys \cup {points[1].bssid})

\* MapValue keeping the value set first.
MapValueFirst(points, key) ==
    points[CHOOSE i \in 1..Len(points) :
              /\ points[i].bssid = key
              /\ \A j \in 1..(i - 1) : points[j].bssid # key]

\* The value a Map holds for key: the one set last.
MapValue(points, key) ==
    points[CHOOSE i \in 1..Len(points) :
              /\ points[i].bssid = key
              /\ \A j \in (i + 1)..Len(points) : points[j].bssid # key]

\* Array.from(new Map(accessPoints.map((point) => [point.bssid, point])).values())
uniquePoints(points) ==
    LET keys == MapKeys(points, {})
    IN  [i \in 1..Len(keys) |-> MapValue(points, keys[i])]

(***************************************************************************)
(* The upstream call: requestAppleDevices, and the loop of                 *)
(* collectAppleDevices over one response's devices.                        *)
(***************************************************************************)
AppleServiceError(message, statusCode, details) ==
    [ok |-> FALSE, error |-> message, statusCode |-> statusCode, details |-> details]

\* What requestAppleDevices hands to fetch(): the enveloped request.
upstreamPayload(points, all) ==
    LET protobufRequest == encodeAppleWLocRequest(points, all)
    IN  IF ~protobufRequest.ok THEN protobufRequest
        ELSE [ok |-> TRUE, bytes |-> buildEnvelope(protobufRequest.bytes)]

\* requestAppleDevicesReturn with the length test body.length < 10.
requestAppleDevicesReturnShortBody(reply) ==
    IF reply.rejected THEN Failure("fetch failed")
    ELSE IF ~reply.ok
    THEN AppleServiceError("Apple location service returned a non-success status.",
                           502, Some([status |-> reply.status]))
    ELSE IF Len(reply.body) < 10
    THEN AppleServiceError("Apple location service returned an unexpected payload.", 502, None)
    ELSE parseAppleWLoc(Subarray(reply.body, 10, Len(reply.body)))

\* requestAppleDevices from the point where fetch() settles.  A reply is
\* [rejected, ok, status, body]; a rejected fetch throws a TypeError.
requestAppleDevicesReturn(reply) ==
    IF reply.rejected THEN Failure("fetch failed")
    ELSE IF ~reply.ok
    THEN AppleServiceError("Apple location service returned a non-success status.",
                           502, Some([status |-> reply.status]))
    ELSE IF Len(reply.body) <= 10
    THEN AppleServiceError("Apple location service returned an unexpected payload.", 502, None)
    ELSE parseAppleWLoc(Subarray(reply.body, 10, Len(reply.body)))

\* collectDevices keeping every device that has a canonical BSSID, seen or not.
RECURSIVE collectDevicesKeepingSeen(_, _, _)
collectDevicesKeepingSeen(devices, seenSet, aggregatedSeq) ==
    IF devices = <<>> THEN [seen |-> seenSet, aggregated |-> aggregatedSeq]
    ELSE IF devices[1].bssid = None \/ devices[1].location = None
    THEN collectDevicesKeepingSeen(Tail(devices), seenSet, aggregatedSeq)
    ELSE LET normalized == tryNormalizeBssid(devices[1].bssid[1])
         IN  IF normalized = None
             THEN collectDevicesKeepingSeen(Tail(devices), seenSet, aggregatedSeq)
             ELSE collectDevicesKeepingSeen(Tail(devices), seenSet \cup {normalized[1]},
                                            Append(aggregatedSeq, devices[1]))

\* The inner loop of collectAppleDevices: [seen, aggregated] after devices.
RECURSIVE collectDevices(_, _, _)
collectDevices(devices, seenSet, aggregatedSeq) ==
    IF devices = <<>> THEN [seen |-> seenSet, aggregated |-> aggregatedSeq]
    ELSE IF devices[1].bssid = None \/ devices[1].location = None
    THEN collectDevices(Tail(devices), seenSet, aggregatedSeq)
    ELSE LET normalized == tryNormalizeBssid(devices[1].bssid[1])
         IN  IF normalized = None \/ normalized[1] \in seenSet
             THEN collectDevices(Tail(devices), seenSet, aggregatedSeq)
             ELSE collectDevices(Tail(devices), seenSet \cup {normalized[1]},
                                 Append(aggregatedSeq, devices[1]))

(***************************************************************************)
(* The responses of fetch: jsonResponse, the catch block, and              *)
(* extractIpFallback.                                                      *)
(***************************************************************************)
jsonResponse(data, status) == [status |-> status, body |-> data]

\* The catch block of fetch: error.statusCode when it is a number, else 400.
errorResponse(error) ==
    jsonResponse([error |-> error.error,
                  details |-> IF "details" \in DOMAIN error THEN error.details ELSE None],
                 IF "statusCode" \in DOMAIN error THEN error.statusCode ELSE 400)

\* request.cf is None or Some([latitude, longitude]) with finite coordinates.
extractIpFallback(cf) ==
    IF cf = None THEN None
    ELSE Some([latitude |-> cf[1].latitude, longitude |-> cf[1].longitude,
               source |-> "cloudflare-geoip"])

\* formatted.fallback is set when nothing was found and there is a fallback.
withFallback(formatted, cf) ==
    IF ~formatted.found /\ extractIpFallback(cf) # None
    THEN [formatted EXCEPT !.fallback = extractIpFallback(cf)]
    ELSE formatted

(***************************************************************************)
(* The varint probe: encodeVarint applied to x, then readVarint at 0.      *)
(***************************************************************************)
MaxBits == 63
SmallMax == 300

\* 0..SmallMax, and every value below 2^MaxBits that is a run of one bits
\* (2^j - 2^i) or has at most two one bits (2^j + 2^i).
VarintInputs ==
    {BigFromNat(n) : n \in 0..SmallMax}
    \cup {BigSub(BigPow2(j), BigPow2(i)) : i \in 0..(MaxBits - 1), j \in 1..MaxBits}
    \cup {BigOr(BigPow2(j), BigPow2(i)) : i \in 0..(MaxBits - 1), j \in 0..(MaxBits - 1)}

RequestIdle ==
    /\ pc = "idle" /\ request = None /\ includeAll = FALSE
    /\ accessPoints = <<>> /\ uniqueAccessPoints = <<>> /\ idx = 0
    /\ seen = {} /\ aggregated = <<>> /\ response = None
    /\ calls = <<>> /\ replies = <<>> /\ inflight = 0

VarintIdle == vpc = "idle" /\ vx = <<>> /\ vbytes = <<>> /\ vdec = None

EncodeIdle == epc = "idle" /\ eaps = <<>> /\ eall = FALSE /\ eout = None

LocationIdle == lpc = "idle" /\ llat = None /\ llon = None /\ lloc = None

InitVarint ==
    /\ vpc = "input" /\ vx \in VarintInputs
    /\ vbytes = <<>> /\ vdec = None
    /\ RequestIdle /\ EncodeIdle /\ LocationIdle

VarintEncode ==
    /\ vpc = "input"
    /\ vbytes' = encodeVarint(vx)
    /\ vpc' = "encoded"
    /\ UNCHANGED <<vx, vdec, requestVars, encodeVars, locationVars>>

VarintDecode ==
    /\ vpc = "encoded"
    /\ vdec' = readVarint(vbytes, 0)
    /\ vpc' = "decoded"
    /\ UNCHANGED <<vx, vbytes, requestVars, encodeVars, locationVars>>

NextVarint == VarintEncode \/ VarintDecode

SpecVarint == InitVarint /\ [][NextVarint]_vars

(***************************************************************************)
(* The inputs: BSSID texts, JSON points, requests, and upstream replies.   *)
(***************************************************************************)
BssidA      == <<"3", "4", ":", "d", "b", ":", "f", "d", ":", "4", "3", ":", "e", "3", ":", "a", "1">>
BssidAUpper == <<"3", "4", "D", "B", "F", "D", "4", "3", "E", "3", "A", "1">>
BssidAColon == <<"3", "4", ":", "D", "B", ":", "F", "D", ":", "4", "3", ":", "E", "3", ":", "A", "1">>
BssidB      == <<"3", "4", ":", "d", "b", ":", "f", "d", ":", "4", "3", ":", "e", "3", ":", "b", "2">>
BssidBDash  == <<"3", "4", "-", "d", "b", "-", "f", "d", "-", "4", "3", "-", "e", "3", "-", "b", "2">>
BssidC      == <<"3", "4", ":", "d", "b", ":", "f", "d", ":", "4", "0", ":", "0", "1", ":", "1", "0">>
BssidShort  == <<"3", "4", ":", "d", "b", ":", "f", "d", ":", "4", "3", ":", "e", "3">>
BssidNoZero == <<"0", ":", "d", "b", ":", "f", "d", ":", "4", "3", ":", "e", "3", ":", "a", "1">>

NullSignal == [t |-> "null"]
NumSignal(v) == [t |-> "num", finite |-> TRUE, v |-> v]
InfiniteSignal == [t |-> "num", finite |-> FALSE, v |-> 0]
StrSignal(s) == [t |-> "str", s |-> s]

\* The JSON points a request body draws its accessPoints from.
JsonPoints ==
    { [bssid |-> Some(BssidAUpper), signal |-> NumSignal(0 - 50)],
      [bssid |-> Some(BssidA),      signal |-> NumSignal(0 - 90)],
      [bssid |-> Some(BssidBDash),  signal |-> StrSignal("-60")],
      [bssid |-> Some(BssidC),      signal |-> NullSignal],
      [bssid |-> Some(BssidShort),  signal |-> NumSignal(0 - 50)],
      [bssid |-> Some(BssidBDash),  signal |-> StrSignal("abc")],
      [bssid |-> Some(BssidC),      signal |-> InfiniteSignal],
      [bssid |-> None,              signal |-> NullSignal] }

MaxAccessPoints == 3

SeqsUpTo(S, n) == UNION {[1..k -> S] : k \in 0..n}

NoBody == [accessPoints |-> None, bssid |-> None, signal |-> NullSignal, all |-> None]
Geo == Some([latitude |-> 40712800, longitude |-> 0 - 74006000])

GetRequests ==
    { [method |-> "GET", queryBssid |-> b, queryAll |-> a, json |-> FALSE,
       body |-> NoBody, cf |-> c] :
         b \in {None, Some(<<>>), Some(BssidAUpper), Some(BssidShort)},
         a \in {None, Some("TRUE"), Some("no")},
         c \in {None, Geo} }

PostRequests ==
    { [method |-> "POST", queryBssid |-> None, queryAll |-> None, json |-> TRUE,
       body |-> [accessPoints |-> Some(ps), bssid |-> None, signal |-> NullSignal, all |-> a],
       cf |-> None] :
         ps \in SeqsUpTo(JsonPoints, MaxAccessPoints), a \in {None, Some("true")} }
    \cup
    { [method |-> "POST", queryBssid |-> None, queryAll |-> q, json |-> j,
       body |-> [accessPoints |-> ps, bssid |-> b, signal |-> NumSignal(0 - 50), all |-> None],
       cf |-> None] :
         ps \in {None, Some(<<>>)}, b \in {None, Some(BssidBDash)},
         q \in {None, Some(" yes ")}, j \in BOOLEAN }

Requests == GetRequests \cup PostRequests

\* Wire values of coordinates: unsigned 64-bit varints.
WireLatA == BigFromWords(<<18036, 9013, 1>>)         \* 4885661300
WireLonA == BigFromWords(<<13496, 3589>>)            \* 235222200
WireLatB == BigFromWords(<<56736, 9013, 1>>)         \* 4885700000
WireLonWest == BigSub(TwoPow64, BigFromWords(<<480, 195>>))   \* -12780000
WireMinus180 == BigSub(TwoPow64, E8Of180)

WireTag(fieldNumber, wireType) == encodeVarint(BigFromNat(fieldNumber * 8 + wireType))
WireVarint(fieldNumber, value) == WireTag(fieldNumber, 0) \o encodeVarint(value)
WireBytes(fieldNumber, bytes) ==
    WireTag(fieldNumber, 2) \o encodeVarint(BigFromNat(Len(bytes))) \o bytes
WireLocation(lat, lon) ==
    WireVarint(1, lat) \o WireVarint(2, lon) \o WireVarint(3, BigFromNat(30))
WireDevice(text, location) ==
    WireBytes(2, WireBytes(1, TextEncode(text)) \o WireBytes(2, location))

\* The ten bytes every upstream body starts with.
BodyPrefix == <<0, 1, 0, 0, 0, 1, 0, 0, 0, 0>>

OkReply(bytes) == [rejected |-> FALSE, ok |-> TRUE, status |-> 200, body |-> BodyPrefix \o bytes]

ReplyIds == {"rejected", "http500", "short", "truncated", "wiretype3",
             "A", "A2B", "sentinelA_C", "junk", "BB"}

UpstreamReply ==
    [id \in ReplyIds |->
        CASE id = "rejected" -> [rejected |-> TRUE, ok |-> FALSE, status |-> 0, body |-> <<>>]
          [] id = "http500" -> [rejected |-> FALSE, ok |-> FALSE, status |-> 500, body |-> <<>>]
          [] id = "short" -> OkReply(<<>>)
          \* a device wrapper whose length varint never ends
          [] id = "truncated" -> OkReply(<<18, 128>>)
          \* field 3 with wire type 3 after one good device
          [] id = "wiretype3" ->
                OkReply(WireDevice(BssidA, WireLocation(WireLatA, WireLonA)) \o <<27, 0>>)
          [] id = "A" -> OkReply(WireDevice(BssidA, WireLocation(WireLatA, WireLonA)))
          \* A again, elsewhere, then a fixed32 field to skip, then B
          [] id = "A2B" ->
                OkReply(WireDevice(BssidAColon, WireLocation(WireLatB, WireLonWest))
                        \o WireTag(5, 5) \o <<1, 2, 3, 4>>
                        \o WireDevice(BssidB, WireLocation(WireLatB, WireLonA)))
          \* A at the unknown-location sentinel, then the neighbour C
          [] id = "sentinelA_C" ->
                OkReply(WireDevice(BssidA, WireLocation(WireMinus180, WireMinus180))
                        \o WireDevice(BssidC, WireLocation(WireLatA, WireLonWest)))
          \* a bssid that does not normalize, a device without bssid, and B
          \* with a location that has no longitude
          [] id = "junk" ->
                OkReply(WireDevice(BssidNoZero, WireLocation(WireLatA, WireLonA))
                        \o WireBytes(2, WireBytes(2, WireLocation(WireLatA, WireLonA)))
                        \o WireDevice(BssidB, WireVarint(1, WireLatB)))
          \* B twice in one response, at two places
          [] id = "BB" ->
                OkReply(WireDevice(BssidB, WireLocation(WireLatA, WireLonWest))
                        \o WireDevice(BssidBDash, WireLocation(WireLatB, WireLonA)))]

\* What requestAppleDevices makes of each reply.
ReplyOutcome == [id \in ReplyIds |-> requestAppleDevicesReturn(UpstreamReply[id])]

(***************************************************************************)
(* One request: fetch, with collectAppleDevices' loop as its own steps.    *)
(***************************************************************************)
Init ==
    /\ pc = "start" /\ request \in Requests
    /\ includeAll = FALSE /\ accessPoints = <<>> /\ uniqueAccessPoints = <<>>
    /\ idx = 0 /\ seen = {} /\ aggregated = <<>> /\ response = None
    /\ calls = <<>> /\ replies = <<>> /\ inflight = 0
    /\ VarintIdle /\ EncodeIdle /\ LocationIdle

\* fetch up to the call of collectAppleDevices: extractParams, the
\* normalization of every point, and the deduplication.
FetchStart ==
    /\ pc = "start"
    /\ LET params == extractParams(request)
           normalized == IF params.ok THEN normalizeAccessPoints(params.accessPoints)
                         ELSE params
       IN  IF ~normalized.ok
           THEN /\ response' = Some(errorResponse(normalized))
                /\ pc' = "done"
                /\ UNCHANGED <<includeAll, accessPoints, uniqueAccessPoints, idx>>
           ELSE /\ includeAll' = params.includeAll
                /\ accessPoints' = normalized.value
                /\ uniqueAccessPoints' = uniquePoints(normalized.value)
                /\ idx' = 1
                /\ pc' = "collect"
                /\ UNCHANGED response
    /\ UNCHANGED <<request, seen, aggregated, calls, replies, inflight, varintVars, encodeVars, locationVars>>

\* The head of the loop with a point left: requestAppleDevices([point], includeAll)
\* up to its await of fetch().
Dispatch ==
    /\ pc = "collect"
    /\ idx <= Len(uniqueAccessPoints)
    /\ LET payload == upstreamPayload(<<uniqueAccessPoints[idx]>>, includeAll)
       IN  IF ~payload.ok
           THEN /\ response' = Some(errorResponse(payload))
                /\ pc' = "done"
                /\ UNCHANGED <<calls, inflight>>
           ELSE /\ calls' = Append(calls, [accessPoints |-> <<uniqueAccessPoints[idx]>>,
                                           includeAll |-> includeAll,
                                           payload |-> payload.bytes])
                /\ inflight' = inflight + 1
                /\ pc' = "await"
                /\ UNCHANGED response
    /\ UNCHANGED <<request, includeAll, accessPoints, uniqueAccessPoints, idx, seen,
                   aggregated, replies, varintVars, encodeVars, locationVars>>

\* Receive with a failed call skipped and the loop going on to the next point.
ReceiveSkippingFailures(id) ==
    /\ pc = "await"
    /\ inflight' = inflight - 1
    /\ replies' = Append(replies, id)
    /\ LET devices == ReplyOutcome[id]
           after == IF devices.ok THEN collectDevices(devices.value, seen, aggregated)
                    ELSE [seen |-> seen, aggregated |-> aggregated]
       IN  /\ seen' = after.seen
           /\ aggregated' = after.aggregated
           /\ idx' = idx + 1
           /\ pc' = "collect"
           /\ UNCHANGED response
    /\ UNCHANGED <<request, includeAll, accessPoints, uniqueAccessPoints, calls,
                   varintVars, encodeVars, locationVars>>

\* fetch() settles with reply id: the rest of requestAppleDevices, then the
\* inner loop of collectAppleDevices, or the catch block of fetch.
Receive(id) ==
    /\ pc = "await"
    /\ inflight' = inflight - 1
    /\ replies' = Append(replies, id)
    /\ LET devices == ReplyOutcome[id]
       IN  IF ~devices.ok
           THEN /\ response' = Some(errorResponse(devices))
                /\ pc' = "done"
                /\ UNCHANGED <<seen, aggregated, idx>>
           ELSE LET after == collectDevices(devices.value, seen, aggregated)
                IN  /\ seen' = after.seen
                    /\ aggregated' = after.aggregated
                    /\ idx' = idx + 1
                    /\ pc' = "collect"
                    /\ UNCHANGED response
    /\ UNCHANGED <<request, includeAll, accessPoints, uniqueAccessPoints, calls,
                   varintVars, encodeVars, locationVars>>

\* The loop is over: formatResults, the fallback, and the JSON response.
Respond ==
    /\ pc = "collect"
    /\ idx > Len(uniqueAccessPoints)
    /\ response' = Some(jsonResponse(
            withFallback(formatResults(aggregated, accessPoints, includeAll), request.cf),
            200))
    /\ pc' = "done"
    /\ UNCHANGED <<request, includeAll, accessPoints, uniqueAccessPoints, idx, seen,
                   aggregated, calls, replies, inflight, varintVars, encodeVars, locationVars>>

Next ==
    \/ FetchStart
    \/ Dispatch
    \/ \E id \in ReplyIds : Receive(id)
    \/ Respond

Spec == Init /\ [][Next]_vars

(***************************************************************************)
(* The builder probe: encodeAppleWLocRequest applied to a list of points.  *)
(***************************************************************************)
MaxEncodePoints == 3

EncodePoints ==
    { [bssid |-> BssidA, signal |-> Some(0 - 50)],
      [bssid |-> BssidB, signal |-> None],
      [bssid |-> BssidC, signal |-> None],
      [bssid |-> BssidShort, signal |-> None] }

InitEncode ==
    /\ epc = "input"
    /\ eaps \in SeqsUpTo(EncodePoints, MaxEncodePoints)
    /\ eall \in BOOLEAN
    /\ eout = None
    /\ RequestIdle /\ VarintIdle /\ LocationIdle

EncodeRequest ==
    /\ epc = "input"
    /\ eout' = Some(encodeAppleWLocRequest(eaps, eall))
    /\ epc' = "built"
    /\ UNCHANGED <<eaps, eall, requestVars, varintVars, locationVars>>

NextEncode == EncodeRequest

SpecEncode == InitEncode /\ [][NextEncode]_vars

(***************************************************************************)
(* The location probe: parseLocation applied to a location submessage      *)
(* whose latitude and longitude fields carry given wire values.            *)
(***************************************************************************)
\* The longest coordinate varint the probe puts on the wire, in bytes.
MaxWireBytes == 10

\* Wire values around the limits of the decoder: small ones, real
\* coordinates, the neighbours of 2^53, 2^63 and 2^64, and the largest value
\* of MaxWireBytes bytes.
WireCoordinates ==
    { v \in { BigFromNat(0), BigFromNat(1), WireLatA, WireLonA, WireLonWest, WireMinus180,
              BigInc(BigPow2(53)),
              BigSub(BigPow2(63), BigFromNat(1)), BigPow2(63),
              BigSub(TwoPow64, BigFromNat(1)), TwoPow64,
              BigOr(TwoPow64, BigPow2(63)),
              BigSub(BigPow2(7 * MaxWireBytes), BigFromNat(1)) } :
        Len(v) <= 7 * MaxWireBytes }

\* The submessage: field 1 when there is a latitude, field 2 when there is a
\* longitude, and the accuracy field 3.
LocationBuffer(lat, lon) ==
    (IF lat = None THEN <<>> ELSE WireVarint(1, lat[1]))
    \o (IF lon = None THEN <<>> ELSE WireVarint(2, lon[1]))
    \o WireVarint(3, BigFromNat(30))

InitLocation ==
    /\ lpc = "input"
    /\ llat \in {None} \cup {Some(v) : v \in WireCoordinates}
    /\ llon \in {None} \cup {Some(v) : v \in WireCoordinates}
    /\ lloc = None
    /\ RequestIdle /\ VarintIdle /\ EncodeIdle

DecodeLocation ==
    /\ lpc = "input"
    /\ lloc' = Some(parseLocation(LocationBuffer(llat, llon)))
    /\ lpc' = "decoded"
    /\ UNCHANGED <<llat, llon, requestVars, varintVars, encodeVars>>

NextLocation == DecodeLocation

SpecLocation == InitLocation /\ [][NextLocation]_vars

(***************************************************************************)
(* Properties of one request (specification Spec).                         *)
(***************************************************************************)
Finished == pc = "done"
Succeeded == pc = "done" /\ response[1].status = 200
Answer == response[1].body

\* The canonical BSSID of a collected device (collectAppleDevices keeps only
\* devices that have one).
Canon(device) == tryNormalizeBssid(device.bssid[1])[1]

\* A collected device whose location is known: not the (-180, -180) sentinel.
Located(device) ==
    /\ device.bssid # None /\ device.location # None
    /\ tryNormalizeBssid(device.bssid[1]) # None
    /\ ~(IsMinus180(device.location[1].latitudeE8) /\ IsMinus180(device.location[1].longitudeE8))

RequestedCanon == {accessPoints[i].bssid : i \in 1..Len(accessPoints)}

Selected(device) == Located(device) /\ (includeAll \/ Canon(device) \in RequestedCanon)

NoSentinelInResults ==
    Succeeded =>
        \A i \in 1..Len(Answer.results) :
            ~(IsMinus180(Answer.results[i].latitude) /\ IsMinus180(Answer.results[i].longitude))

\* With includeAll, a device at the sentinel location was collected and the
\* request returned other devices.
NoSentinelInResultsWitness ==
    /\ Succeeded /\ includeAll /\ Answer.found
    /\ \E i \in 1..Len(aggregated) :
          /\ IsMinus180(aggregated[i].location[1].latitudeE8)
          /\ IsMinus180(aggregated[i].location[1].longitudeE8)

\* The replies with a non-success status, or a body of 10 bytes or fewer.
TransportFailures ==
    {id \in ReplyIds :
        /\ ~UpstreamReply[id].rejected
        /\ ~UpstreamReply[id].ok \/ Len(UpstreamReply[id].body) <= 10}

\* The replies with a body of more than 10 bytes that does not decode.
DecodeFailures ==
    {id \in ReplyIds :
        /\ ~UpstreamReply[id].rejected /\ UpstreamReply[id].ok
        /\ Len(UpstreamReply[id].body) > 10
        /\ ~parseAppleWLoc(SubSeq(UpstreamReply[id].body, 11, Len(UpstreamReply[id].body))).ok}

TransportFailure(id) == id \in TransportFailures
DecodeFailure(id) == id \in DecodeFailures

\* C3: once an upstream call has returned a non-success status or a body of
\* 10 bytes or fewer, the request has ended with HTTP 502 (never 200), while
\* a request refused before any upstream call ends with HTTP 400.
TransportFailureIs502 ==
    /\ (\E k \in 1..Len(replies) : TransportFailure(replies[k])) =>
            Finished /\ response[1].status = 502
    /\ (Finished /\ calls = <<>>) => response[1].status = 400

\* The second call returned exactly 10 bytes after a first call succeeded.
TransportFailureIs502Witness ==
    /\ Finished /\ Len(replies) = 2
    /\ replies[2] = "short"
    /\ aggregated # <<>>
    /\ response[1].status = 502

\* C4 as claimed: once an upstream body of more than 10 bytes has failed to
\* decode, the request has ended with HTTP 502.
DecodeFailureIs502 ==
    (\E k \in 1..Len(replies) : DecodeFailure(replies[k])) =>
        Finished /\ response[1].status = 502

\* The raw access points a request carries.
RawPoints(req) ==
    IF req.method # "POST"
    THEN IF req.queryBssid = None \/ req.queryBssid[1] = <<>> THEN <<>>
         ELSE <<[bssid |-> req.queryBssid, signal |-> NullSignal]>>
    ELSE IF req.body.accessPoints # None /\ req.body.accessPoints[1] # <<>>
    THEN req.body.accessPoints[1]
    ELSE IF req.body.bssid # None
    THEN <<[bssid |-> req.body.bssid, signal |-> req.body.signal]>>
    ELSE <<>>

HexDigits(text) == Cardinality({i \in 1..Len(text) : text[i] \in HexChars})

MalformedBssid(point) == point.bssid # None /\ HexDigits(point.bssid[1]) # 12

NonFiniteSignal(point) ==
    \/ point.signal.t = "num" /\ ~point.signal.finite
    \/ /\ point.signal.t = "str" /\ point.signal.s # ""
       /\ NumberOfString(point.signal.s).nan \/ ~NumberOfString(point.signal.s).finite

BadInput ==
    \/ RawPoints(request) = <<>>
    \/ \E i \in 1..Len(RawPoints(request)) :
          MalformedBssid(RawPoints(request)[i]) \/ NonFiniteSignal(RawPoints(request)[i])

\* C5: a request with a malformed BSSID or a non-finite signal at any
\* position, or with no access point, never issues an upstream call, and it
\* ends with the input error (HTTP 400).
BadInputIsRefusedBeforeAnyCall ==
    BadInput =>
        /\ calls = <<>> /\ inflight = 0 /\ replies = <<>>
        /\ pc \in {"start", "done"}
        /\ Finished => response[1].status = 400 /\ "results" \notin DOMAIN Answer

\* Three access points of which only the last one is bad, refused.
BadInputIsRefusedBeforeAnyCallWitness ==
    /\ Finished
    /\ Len(RawPoints(request)) = 3
    /\ ~MalformedBssid(RawPoints(request)[1]) /\ ~NonFiniteSignal(RawPoints(request)[1])
    /\ ~MalformedBssid(RawPoints(request)[2]) /\ ~NonFiniteSignal(RawPoints(request)[2])
    /\ RawPoints(request)[1].bssid # None /\ RawPoints(request)[2].bssid # None
    /\ NonFiniteSignal(RawPoints(request)[3])
    /\ response[1].status = 400

\* C6: once an upstream call has failed (non-success status, short body or
\* decode error), the request has ended with an error response that carries
\* no results, and the failed call is the last one issued.
FailedCallAbortsTheRequest ==
    \A k \in 1..Len(replies) :
        (TransportFailure(replies[k]) \/ DecodeFailure(replies[k])) =>
            /\ Finished
            /\ response[1].status # 200
            /\ "results" \notin DOMAIN Answer
            /\ "error" \in DOMAIN Answer
            /\ k = Len(replies) /\ Len(calls) = k /\ inflight = 0

\* The second of three calls failed after the first had collected a device.
FailedCallAbortsTheRequestWitness ==
    /\ Finished
    /\ Len(uniqueAccessPoints) = 3 /\ Len(calls) = 2 /\ Len(replies) = 2
    /\ TransportFailure(replies[2]) \/ DecodeFailure(replies[2])
    /\ aggregated # <<>>
    /\ "results" \notin DOMAIN Answer

\* The caller-supplied signals of a canonical BSSID, over every occurrence.
SignalsOf(bssid) ==
    SelectSeq([i \in 1..Len(accessPoints) |-> accessPoints[i]],
              LAMBDA p : p.bssid = bssid /\ p.signal # None)

RECURSIVE WeightSumOf(_)
WeightSumOf(points) ==
    IF points = <<>> THEN 0 ELSE weightFromSignal(points[1].signal[1]) + WeightSumOf(Tail(points))

Contributing(device) == Located(device) /\ WeightSumOf(SignalsOf(Canon(device))) > 0

ContributingCount == Len(SelectSeq(aggregated, Contributing))

\* C7: the response carries triangulated only if at least 2 located,
\* non-sentinel, deduplicated devices have a positive sum of signal weights,
\* and then pointsUsed is the number of such devices.
TriangulatedNeedsTwoDevices ==
    Succeeded =>
        /\ Answer.triangulated # None =>
              /\ ContributingCount >= 2
              /\ Answer.triangulated[1].pointsUsed = ContributingCount
        /\ ContributingCount < 2 => Answer.triangulated = None

\* Two devices with signals gave an estimate.
TriangulatedNeedsTwoDevicesWitness ==
    /\ Succeeded
    /\ Answer.triangulated # None
    /\ Answer.triangulated[1].pointsUsed = 2
    /\ Len(aggregated) > 2

\* One device with a signal, and others without, gave none.
TriangulatedAbsentWitness ==
    /\ Succeeded
    /\ ContributingCount = 1
    /\ Len(Answer.results) >= 2
    /\ Answer.triangulated = None

\* The sequence of distinct canonical BSSIDs of the request, in the order of
\* their first occurrence.
DistinctCanon ==
    LET firsts == {i \in 1..Len(accessPoints) :
                      \A j \in 1..(i - 1) : accessPoints[j].bssid # accessPoints[i].bssid}
        Rank(i) == Cardinality({j \in firsts : j <= i})
    IN  [k \in 1..Cardinality(firsts) |->
            accessPoints[CHOOSE i \in firsts : Rank(i) = k].bssid]

\* The signal of the last occurrence of a canonical BSSID in the request.
LastSignal(bssid) ==
    accessPoints[CHOOSE i \in 1..Len(accessPoints) :
                    /\ accessPoints[i].bssid = bssid
                    /\ \A j \in (i + 1)..Len(accessPoints) : accessPoints[j].bssid # bssid].signal

\* The bytes of a call's payload after the envelope's 50 bytes of header.
CallMessage(call) == SubSeq(call.payload, 51, Len(call.payload))

RecordsOfReply ==
    [id \in ReplyIds |->
        IF ~ReplyOutcome[id].ok THEN <<>>
        ELSE [i \in 1..Len(ReplyOutcome[id].value) |->
                LET device == ReplyOutcome[id].value[i]
                IN  [canon |-> IF device.bssid = None THEN None
                               ELSE tryNormalizeBssid(device.bssid[1]),
                     location |-> device.location]]]

\* The records of the first k replies, in dispatch order and then in the order
\* they have in their response.
RECURSIVE RecordsUpTo(_)
RecordsUpTo(k) ==
    IF k = 0 THEN <<>> ELSE RecordsUpTo(k - 1) \o RecordsOfReply[replies[k]]

Records == RecordsUpTo(Len(replies))

\* The positions of the records that have canonical BSSID b and a location.
RecordsWith(b) ==
    {i \in 1..Len(Records) : Records[i].canon = Some(b) /\ Records[i].location # None}

FirstRecordWith(b) == Records[CHOOSE i \in RecordsWith(b) : \A j \in RecordsWith(b) : i <= j]

\* C11: results never has two entries with one canonical BSSID; the
\* coordinates reported for a BSSID are those of the first record, in dispatch
\* order and then in response order, that has this canonical BSSID and a
\* location; a record whose bssid does not canonicalize is left out, and the
\* request fails only when a call failed.
FirstOccurrenceWins ==
    /\ Succeeded =>
          /\ \A i, j \in 1..Len(Answer.results) :
                i # j => Answer.results[i].bssid # Answer.results[j].bssid
          /\ \A i \in 1..Len(Answer.results) :
                /\ RecordsWith(Answer.results[i].bssid) # {}
                /\ Answer.results[i].latitude =
                      FirstRecordWith(Answer.results[i].bssid).location[1].latitudeE8
                /\ Answer.results[i].longitude =
                      FirstRecordWith(Answer.results[i].bssid).location[1].longitudeE8
    /\ Finished /\ replies # <<>> /\ ReplyOutcome[replies[Len(replies)]].ok => Succeeded

\* A BSSID was decoded at two places, in one response or in two, a record had
\* a bssid that does not canonicalize, and the request returned the BSSID.
FirstOccurrenceWinsWitness ==
    /\ Succeeded
    /\ \E i \in 1..Len(Records) : Records[i].canon = None /\ Records[i].location # None
    /\ \E i \in 1..Len(Answer.results) :
          \E j \in RecordsWith(Answer.results[i].bssid) :
              Records[j].location # FirstRecordWith(Answer.results[i].bssid).location

\* The canonical BSSIDs for which some response has a record with a location
\* other than the (-180, -180) sentinel.
KnownBssids ==
    {Records[i].canon[1] : i \in {j \in 1..Len(Records) :
                                      /\ Records[j].canon # None
                                      /\ Records[j].location # None
                                      /\ ~IsSentinel(Records[j].location[1])}}

\* C13: a record at (-180, -180) never takes the first-occurrence slot of
\* its BSSID: when the request succeeds, every BSSID that some response
\* located elsewhere than at the sentinel, and that the selection mode
\* returns, is in results, whether or not a sentinel record of that BSSID was
\* decoded earlier.
SentinelNeverTakesTheSlot ==
    Succeeded =>
        \A b \in KnownBssids :
            (includeAll \/ b \in RequestedCanon) =>
                \E i \in 1..Len(Answer.results) : Answer.results[i].bssid = b

\* C14: with or without includeAll, every device that contributes to the
\* triangulation has a canonical BSSID that the caller requested and that is
\* in results; when the response has triangulated, found is true and
\* pointsUsed is at most the number of entries of results.
ContributorsAreReturned ==
    Succeeded =>
        /\ \A k \in 1..Len(aggregated) :
              Contributing(aggregated[k]) =>
                  /\ Canon(aggregated[k]) \in RequestedCanon
                  /\ \E i \in 1..Len(Answer.results) :
                        Answer.results[i].bssid = Canon(aggregated[k])
        /\ Answer.triangulated # None =>
              /\ Answer.found
              /\ Answer.triangulated[1].pointsUsed <= Len(Answer.results)

\* With includeAll, an estimate from fewer devices than results has entries,
\* one of them for a BSSID the caller did not request.
ContributorsAreReturnedWitness ==
    /\ Succeeded /\ includeAll
    /\ Answer.triangulated # None
    /\ Answer.triangulated[1].pointsUsed < Len(Answer.results)
    /\ \E i \in 1..Len(Answer.results) : Answer.results[i].bssid \notin RequestedCanon

(***************************************************************************)
(* Properties of the codec probes.                                         *)
(***************************************************************************)
\* C8: decoding the bytes of encodeVarint(x) from offset 0 gives back x and a
\* next offset equal to the number of bytes; every byte but the last has its
\* top bit set, and the last has it clear.
VarintRoundTrip ==
    /\ vpc \in {"encoded", "decoded"} =>
          /\ Len(vbytes) >= 1
          /\ \A i \in 1..Len(vbytes) :
                /\ vbytes[i] \in 0..255
                /\ (i < Len(vbytes)) <=> (vbytes[i] >= 128)
    /\ vpc = "decoded" =>
          /\ vdec.ok
          /\ vdec.value = vx
          /\ vdec.next = Len(vbytes)

\* A value of nine bytes (above 2^56) has made the round trip.
VarintRoundTripWitness ==
    /\ vpc = "decoded"
    /\ Len(vx) = MaxBits
    /\ Len(vbytes) = 9
    /\ vdec.ok /\ vdec.value = vx

\* The 0x12 wrappers at the start of bytes: each is the tag 18, a length
\* varint, and that many bytes.  [count, rest, bssids].
RECURSIVE LeadingWrappers(_, _, _)
LeadingWrappers(bytes, count, bssids) ==
    IF bytes = <<>> \/ bytes[1] # 18 THEN [count |-> count, rest |-> bytes, bssids |-> bssids]
    ELSE LET l == readVarint(bytes, 1)
         IN  IF ~l.ok \/ l.next + BigToNumber(l.value) > Len(bytes)
             THEN [count |-> count, rest |-> bytes, bssids |-> bssids]
             ELSE LET inner == SubSeq(bytes, l.next + 1, l.next + BigToNumber(l.value))
                  IN  LeadingWrappers(
                         SubSeq(bytes, l.next + BigToNumber(l.value) + 1, Len(bytes)),
                         count + 1,
                         Append(bssids, TextDecode(SubSeq(inner, 3, Len(inner)))))

\* C9: the builder's output is one 0x12 wrapper per access point, then field
\* 3 (tag 0x18) with value 0, then field 4 (tag 0x20) with value 1 if exactly
\* one access point was passed and includeAll is false, and 0 otherwise.
ReturnSingleFlag ==
    epc = "built" /\ eaps # <<>> =>
        /\ eout[1].ok
        /\ LET w == LeadingWrappers(eout[1].bytes, 0, <<>>)
           IN  /\ w.count = Len(eaps)
               /\ w.bssids = [i \in 1..Len(eaps) |-> eaps[i].bssid]
               /\ w.rest = <<24, 0, 32, IF Len(eaps) = 1 /\ ~eall THEN 1 ELSE 0>>

\* Two access points without includeAll: the flag is 0.
ReturnSingleFlagWitness ==
    /\ epc = "built" /\ Len(eaps) = 2 /\ ~eall
    /\ eout[1].ok
    /\ eout[1].bytes[Len(eout[1].bytes)] = 0

\* One access point without includeAll: the flag is 1.
ReturnSingleFlagOneWitness ==
    /\ epc = "built" /\ Len(eaps) = 1 /\ ~eall
    /\ eout[1].ok
    /\ eout[1].bytes[Len(eout[1].bytes)] = 1

(***************************************************************************)
(* Properties of the location probe (specification SpecLocation).          *)
(***************************************************************************)
\* The signed 64-bit reading of a wire value: v up to 2^63 - 1, v - 2^64 above.
AsInt64(v) ==
    IF BigLess(v, BigPow2(63)) THEN [neg |-> FALSE, mag |-> v]
    ELSE SignedSub(v, BigPow2(64))

\* -2^63 <= s <= 2^63 - 1
InInt64Range(s) ==
    IF s.neg THEN ~BigLess(BigPow2(63), s.mag) ELSE BigLess(s.mag, BigPow2(63))

\* C12: a location with both coordinates decodes to the signed 64-bit
\* readings of their wire values, each within [-2^63, 2^63 - 1]; a location
\* without latitude or without longitude decodes to no location.
DecodedCoordinatesAreInt64 ==
    lpc = "decoded" =>
        /\ lloc[1].ok
        /\ (llat = None \/ llon = None) => lloc[1].value = None
        /\ (llat # None /\ llon # None) =>
              /\ lloc[1].value # None
              /\ lloc[1].value[1].latitudeE8 = AsInt64(llat[1])
              /\ lloc[1].value[1].longitudeE8 = AsInt64(llon[1])
              /\ InInt64Range(lloc[1].value[1].latitudeE8)
              /\ InInt64Range(lloc[1].value[1].longitudeE8)

=============================================================================
